---- MODULE Spec2Model ----
(***************************************************************************)
(* A model of the thumbnailer crate's entry point, src/src/lib.rs:         *)
(*   create_thumbnails(reader, mime, sizes)  -- decode once, then          *)
(*   resize_images(image, &sizes)            -- one rayon task per size,   *)
(*                                              collected in index order.  *)
(* One behaviour is one call.  A resize task is two steps (picked up by a  *)
(* worker, closure evaluated and its slot written), so that every          *)
(* interleaving of the per-size tasks is a behaviour of the model.         *)
(*                                                                         *)
(* formats.rs (get_base_image) and size.rs (ThumbnailSize) are not part of *)
(* the sources at hand; they are modelled from the specification's         *)
(* sections 4.1, 4.2 and 7.  DynamicImage::resize is the image crate's:    *)
(* it is modelled by what the crate computes (resize_dimensions with       *)
(* fill = false, then a resample to exactly those dimensions).             *)
(***************************************************************************)
EXTENDS Integers, Naturals, Sequences, FiniteSets, TLC

VARIABLES
    pc,          \* position of the call: "idle", "decode", "resize", "returned"
    req,         \* the arguments of the call: reader, mime, sizes
    readPos,     \* how far the reader has been consumed
    image,       \* the base image (local `image` of create_thumbnails)
    sizes,       \* the collected Vec<ThumbnailSize> (local `sizes`)
    taskPc,      \* per item of the parallel iterator: "pending", "running", "done"
    out,         \* the collect buffer of resize_images, one slot per item
    result,      \* "none" while running, then "Ok" or the error kind
    thumbnails,  \* the Vec<Thumbnail> carried by an Ok result
    decodeCalls, \* number of get_base_image invocations
    resizeCalls  \* number of DynamicImage::resize invocations

vars == <<pc, req, readPos, image, sizes, taskPc, out, result, thumbnails,
          decodeCalls, resizeCalls>>

----------------------------------------------------------------------------
(* Bounds of the model *)

MaxDim == 5

MaxSizes == 3

Workers == 2

StreamLen == 2

----------------------------------------------------------------------------
(* Helpers *)

Max(a, b) == IF a >= b THEN a ELSE b

\* f64::round of the non-negative quotient a / b (half away from zero)
RoundDiv(a, b) == (2 * a + b) \div (2 * b)

Range(s) == {s[i] : i \in 1..Len(s)}

RECURSIVE SeqsUpTo(_, _)
SeqsUpTo(S, n) ==
    IF n = 0 THEN {<<>>}
    ELSE LET shorter == SeqsUpTo(S, n - 1)
         IN shorter \cup {Append(s, x) : s \in {t \in shorter : Len(t) = n - 1}, x \in S}

----------------------------------------------------------------------------
(* Size Catalog (size.rs, modelled from the specification, section 4.1):   *)
(* a closed enumeration, each class resolving to exactly one box.  The     *)
(* (300,300) box is the one of the specification's scenarios; the two      *)
(* small boxes, one square and one not, put sources on both sides of a box *)
(* within the bounded source dimensions.                                   *)

SizeClasses == {"Small", "Medium", "Large"}

dimensions(size) ==
    CASE size = "Small"  -> <<3, 3>>
      [] size = "Medium" -> <<4, 2>>
      [] size = "Large"  -> <<300, 300>>

----------------------------------------------------------------------------
(* Format Dispatcher (formats.rs, modelled from the specification,         *)
(* sections 4.2 and 7)                                                     *)

Mimes == {"image/png", "image/jpeg", "text/plain"}

SupportedTypes == {"image/png", "image/jpeg"}

NoImage == [width |-> 0, height |-> 0, pixels |-> "none"]

\* Source dimensions: a small grid, and the two sources of the scenarios.
SourceDims == ((1..MaxDim) \X (1..MaxDim)) \cup {<<4000, 3000>>, <<100, 200>>}

\* A reader: well-formed bytes of an image of some dimensions, or bytes that
\* fail to parse / a transport that fails at offset failAt.
Readers ==
    {[kind |-> "wellformed", width |-> d[1], height |-> d[2], failAt |-> 0] :
        d \in SourceDims}
    \cup {[kind |-> k, width |-> 0, height |-> 0, failAt |-> p] :
            k \in {"malformed", "ioerror"}, p \in 1..StreamLen}

get_base_image(reader, mime) ==
    IF mime \notin SupportedTypes
    THEN [status |-> "UnsupportedFormat", image |-> NoImage, consumed |-> 0]
    ELSE IF reader.kind = "ioerror"
    THEN [status |-> "IoFailure", image |-> NoImage, consumed |-> reader.failAt]
    ELSE IF reader.kind = "malformed"
    THEN [status |-> "DecodeFailure", image |-> NoImage, consumed |-> reader.failAt]
    ELSE [status |-> "Ok",
          image |-> [width |-> reader.width, height |-> reader.height,
                     pixels |-> "decoded"],
          consumed |-> StreamLen]

----------------------------------------------------------------------------
(* DynamicImage::resize(nwidth, nheight, Lanczos3), called at lib.rs:88 *)

\* image::math::utils::resize_dimensions(width, height, nwidth, nheight, false):
\* ratio = min(nwidth / width, nheight / height), each side round(side * ratio),
\* at least 1.
ResizeDimensionsExact(width, height, nwidth, nheight) == <<nwidth, nheight>>

ResizeDimensions(width, height, nwidth, nheight) ==
    IF nwidth * height <= nheight * width
    THEN <<Max(RoundDiv(width * nwidth, width), 1),
           Max(RoundDiv(height * nwidth, width), 1)>>
    ELSE <<Max(RoundDiv(width * nheight, height), 1),
           Max(RoundDiv(height * nheight, height), 1)>>

\* The resized image is a new image; the receiver is only read.
Resize(img, nwidth, nheight) ==
    LET d == ResizeDimensions(img.width, img.height, nwidth, nheight)
    IN [width |-> d[1], height |-> d[2], pixels |-> "lanczos3"]

----------------------------------------------------------------------------
(* lib.rs *)

Thumbnail(inner) == [inner |-> inner]

\* Thumbnail::size
size(thumbnail) == <<thumbnail.inner.width, thumbnail.inner.height>>

\* let sizes: Vec<ThumbnailSize> = sizes.into_iter().collect();
RECURSIVE Dedup(_)
Dedup(s) ==
    IF s = <<>> THEN <<>>
    ELSE LET front == Dedup(SubSeq(s, 1, Len(s) - 1))
         IN IF s[Len(s)] \in Range(front) THEN front ELSE Append(front, s[Len(s)])

CollectSizesDedup(iter) == Dedup(iter)

CollectSizesDefault(iter) == IF iter = <<>> THEN <<"Medium">> ELSE iter

CollectSizes(iter) == iter

\* The closure of resize_images: |size| { let (width, height) =
\* size.dimensions(); image.resize(width, height, FilterType::Lanczos3) }
ResizeOneSwapped(img, sz) ==
    Resize(img, dimensions(sz)[2], dimensions(sz)[1])

ResizeOneDownscaleOnly(img, sz) ==
    IF img.width <= dimensions(sz)[1] /\ img.height <= dimensions(sz)[2]
    THEN [img EXCEPT !.pixels = "lanczos3"]
    ELSE Resize(img, dimensions(sz)[1], dimensions(sz)[2])

ResizeOne(img, sz) ==
    LET width == dimensions(sz)[1]
        height == dimensions(sz)[2]
    IN Resize(img, width, height)

Init ==
    /\ pc = "idle"
    /\ req = [reader |-> [kind |-> "none", width |-> 0, height |-> 0, failAt |-> 0],
              mime |-> "none", sizes |-> <<>>]
    /\ readPos = 0
    /\ image = NoImage
    /\ sizes = <<>>
    /\ taskPc = <<>>
    /\ out = <<>>
    /\ result = "none"
    /\ thumbnails = <<>>
    /\ decodeCalls = 0
    /\ resizeCalls = 0

\* The caller invokes create_thumbnails(reader, mime, sizes).
Call ==
    /\ pc = "idle"
    /\ \E reader \in Readers, mime \in Mimes, iter \in SeqsUpTo(SizeClasses, MaxSizes) :
          req' = [reader |-> reader, mime |-> mime, sizes |-> iter]
    /\ pc' = "decode"
    /\ UNCHANGED <<readPos, image, sizes, taskPc, out, result, thumbnails,
                   decodeCalls, resizeCalls>>

\* let image = get_base_image(reader, mime)?; then sizes are collected and
\* resize_images sets up one item per size.
DecodeUnwrapOrDefault ==
    /\ pc = "decode"
    /\ LET r == get_base_image(req.reader, req.mime)
           n == Len(CollectSizes(req.sizes))
       IN /\ readPos' = r.consumed
          /\ decodeCalls' = decodeCalls + 1
          /\ image' = IF r.status = "Ok" THEN r.image
                      ELSE [width |-> 1, height |-> 1, pixels |-> "decoded"]
          /\ sizes' = CollectSizes(req.sizes)
          /\ taskPc' = [i \in 1..n |-> "pending"]
          /\ out' = [i \in 1..n |-> NoImage]
          /\ pc' = "resize"
          /\ UNCHANGED <<result, thumbnails>>
    /\ UNCHANGED <<req, resizeCalls>>

DecodeRetry ==
    /\ pc = "decode"
    /\ LET r == get_base_image(req.reader, req.mime)
           n == Len(CollectSizes(req.sizes))
       IN /\ readPos' = r.consumed
          /\ decodeCalls' = decodeCalls + 1
          /\ IF r.status = "Ok"
             THEN /\ image' = r.image
                  /\ sizes' = CollectSizes(req.sizes)
                  /\ taskPc' = [i \in 1..n |-> "pending"]
                  /\ out' = [i \in 1..n |-> NoImage]
                  /\ pc' = "resize"
                  /\ UNCHANGED <<result, thumbnails>>
             ELSE IF decodeCalls = 0
             THEN UNCHANGED <<pc, image, sizes, taskPc, out, result, thumbnails>>
             ELSE /\ result' = r.status
                  /\ pc' = "returned"
                  /\ UNCHANGED <<image, sizes, taskPc, out, thumbnails>>
    /\ UNCHANGED <<req, resizeCalls>>

Decode ==
    /\ pc = "decode"
    /\ LET r == get_base_image(req.reader, req.mime)
           n == Len(CollectSizes(req.sizes))
       IN /\ readPos' = r.consumed
          /\ decodeCalls' = decodeCalls + 1
          /\ IF r.status = "Ok"
             THEN /\ image' = r.image
                  /\ sizes' = CollectSizes(req.sizes)
                  /\ taskPc' = [i \in 1..n |-> "pending"]
                  /\ out' = [i \in 1..n |-> NoImage]
                  /\ pc' = "resize"
                  /\ UNCHANGED <<result, thumbnails>>
             ELSE /\ result' = r.status
                  /\ pc' = "returned"
                  /\ UNCHANGED <<image, sizes, taskPc, out, thumbnails>>
    /\ UNCHANGED <<req, resizeCalls>>

Running == {i \in DOMAIN taskPc : taskPc[i] = "running"}

\* A worker of the pool picks up item i of sizes.into_par_iter().
StartTask(i) ==
    /\ pc = "resize"
    /\ taskPc[i] = "pending"
    /\ Cardinality(Running) < Workers
    /\ taskPc' = [taskPc EXCEPT ![i] = "running"]
    /\ UNCHANGED <<pc, req, readPos, image, sizes, out, result, thumbnails,
                   decodeCalls, resizeCalls>>

\* The worker evaluates the closure on sizes[i]; the indexed collect puts the
\* result into slot i.
FirstFree == CHOOSE j \in DOMAIN out : out[j] = NoImage /\ \A k \in 1..(j - 1) : out[k] # NoImage

FinishTaskCompletionOrder(i) ==
    /\ pc = "resize"
    /\ taskPc[i] = "running"
    /\ out' = [out EXCEPT ![FirstFree] = ResizeOne(image, sizes[i])]
    /\ resizeCalls' = resizeCalls + 1
    /\ taskPc' = [taskPc EXCEPT ![i] = "done"]
    /\ UNCHANGED <<pc, req, readPos, image, sizes, result, thumbnails, decodeCalls>>

FinishTaskInPlace(i) ==
    /\ pc = "resize"
    /\ taskPc[i] = "running"
    /\ image' = [ResizeOne(image, sizes[i]) EXCEPT !.pixels = "decoded"]
    /\ out' = [out EXCEPT ![i] = ResizeOne(image, sizes[i])]
    /\ resizeCalls' = resizeCalls + 1
    /\ taskPc' = [taskPc EXCEPT ![i] = "done"]
    /\ UNCHANGED <<pc, req, readPos, sizes, result, thumbnails, decodeCalls>>

FinishTask(i) ==
    /\ pc = "resize"
    /\ taskPc[i] = "running"
    /\ out' = [out EXCEPT ![i] = ResizeOne(image, sizes[i])]
    /\ resizeCalls' = resizeCalls + 1
    /\ taskPc' = [taskPc EXCEPT ![i] = "done"]
    /\ UNCHANGED <<pc, req, readPos, image, sizes, result, thumbnails, decodeCalls>>

\* collect() returns once every item is done; create_thumbnails wraps each
\* image into a Thumbnail and returns Ok(thumbnails).
CollectEarly ==
    /\ pc = "resize"
    /\ \A i \in DOMAIN taskPc : taskPc[i] # "pending"
    /\ thumbnails' = [i \in 1..Len(out) |-> Thumbnail(out[i])]
    /\ result' = "Ok"
    /\ pc' = "returned"
    /\ UNCHANGED <<req, readPos, image, sizes, taskPc, out, decodeCalls, resizeCalls>>

Collect ==
    /\ pc = "resize"
    /\ \A i \in DOMAIN taskPc : taskPc[i] = "done"
    /\ thumbnails' = [i \in 1..Len(out) |-> Thumbnail(out[i])]
    /\ result' = "Ok"
    /\ pc' = "returned"
    /\ UNCHANGED <<req, readPos, image, sizes, taskPc, out, decodeCalls, resizeCalls>>

Start == \E i \in DOMAIN taskPc : StartTask(i)

Finish == \E i \in DOMAIN taskPc : FinishTask(i)

Next == Call \/ Decode \/ Start \/ Finish \/ Collect

Spec == Init /\ [][Next]_vars

\* The call is synchronous and the pool's workers run every item they are
\* given: once decoded, the resize phase keeps stepping.
FairSpec == Spec /\ WF_vars(Start) /\ WF_vars(Finish) /\ WF_vars(Collect)

----------------------------------------------------------------------------
(* Properties *)

Returned == pc = "returned"

ReturnedOk == pc = "returned" /\ result = "Ok"

\* What the dispatcher yields for the call's arguments.
Decoded == get_base_image(req.reader, req.mime)

SrcW == req.reader.width

SrcH == req.reader.height

BoxW(i) == dimensions(req.sizes[i])[1]

BoxH(i) == dimensions(req.sizes[i])[2]

\* C1: a successful call with n requested sizes returns exactly n thumbnails,
\* the one at position i having the dimensions of the source resized for
\* sizes[i], whatever the interleaving of the tasks; a size class requested
\* twice yields two entries of identical dimensions.
C1_OneToOneInOrder ==
    ReturnedOk =>
        /\ Len(thumbnails) = Len(req.sizes)
        /\ \A i \in 1..Len(req.sizes) :
              size(thumbnails[i]) = ResizeDimensions(SrcW, SrcH, BoxW(i), BoxH(i))
        /\ \A i, j \in 1..Len(req.sizes) :
              req.sizes[i] = req.sizes[j] =>
                  /\ i \in DOMAIN thumbnails /\ j \in DOMAIN thumbnails
                  /\ size(thumbnails[i]) = size(thumbnails[j])

\* The same class first and last, another one between them.
C1_Witness ==
    /\ ReturnedOk
    /\ Len(req.sizes) = 3
    /\ req.sizes[1] = req.sizes[3]
    /\ Len(thumbnails) = 3
    /\ size(thumbnails[1]) = size(thumbnails[3])
    /\ size(thumbnails[1]) # size(thumbnails[2])

\* C2: for a source of at least 1x1, every returned thumbnail fits the box of
\* the size class it was requested for: w <= maxW and h <= maxH.
C2_FitsBox ==
    ReturnedOk =>
        \A i \in 1..Len(thumbnails) :
            (SrcW >= 1 /\ SrcH >= 1 /\ i <= Len(req.sizes)) =>
                /\ size(thumbnails[i])[1] <= BoxW(i)
                /\ size(thumbnails[i])[2] <= BoxH(i)

\* A 1x5 source in the (4,2) box: the width rounds to 0 and is raised to 1.
C2_Witness ==
    /\ ReturnedOk
    /\ SrcW = 1 /\ SrcH = 5
    /\ Len(req.sizes) >= 1 /\ req.sizes[1] = "Medium"
    /\ size(thumbnails[1]) = <<1, 2>>

\* x is a / b rounded to one of its two neighbouring integers
RoundingOf(x, a, b) == x * b - a < b /\ a - x * b < b

\* C3: the realized dimensions are the source's scaled by min(maxW/W, maxH/H)
\* up to integer rounding; a side of the box is met whenever the source is
\* not smaller than the box in both dimensions; 4000x3000 in (300,300) gives
\* exactly (300,225).
C3_ScaledByMinFactor ==
    ReturnedOk =>
        \A i \in 1..Len(thumbnails) :
            i <= Len(req.sizes) =>
                LET w == size(thumbnails[i])[1]
                    h == size(thumbnails[i])[2]
                    byWidth == BoxW(i) * SrcH <= BoxH(i) * SrcW
                    num == IF byWidth THEN BoxW(i) ELSE BoxH(i)
                    den == IF byWidth THEN SrcW ELSE SrcH
                IN /\ RoundingOf(w, SrcW * num, den)
                   /\ RoundingOf(h, SrcH * num, den)
                   /\ ~(SrcW < BoxW(i) /\ SrcH < BoxH(i)) => (w = BoxW(i) \/ h = BoxH(i))
                   /\ (SrcW = 4000 /\ SrcH = 3000 /\ BoxW(i) = 300 /\ BoxH(i) = 300)
                         => (w = 300 /\ h = 225)

C3_Witness ==
    /\ ReturnedOk
    /\ SrcW = 4000 /\ SrcH = 3000
    /\ Len(req.sizes) >= 1 /\ req.sizes[1] = "Large"
    /\ size(thumbnails[1]) = <<300, 225>>

\* C4: all-or-nothing.  A failed decode is returned as the call's error, once
\* decoded (no retry), with no resize task started and no thumbnail; an Ok
\* result carries every requested thumbnail; no error carries thumbnails.
C4_AllOrNothing ==
    /\ (Returned /\ Decoded.status # "Ok") =>
          /\ result = Decoded.status
          /\ decodeCalls = 1
          /\ resizeCalls = 0
          /\ \A i \in DOMAIN taskPc : taskPc[i] = "pending"
          /\ thumbnails = <<>>
    /\ result = "Ok" =>
          /\ Len(thumbnails) = Len(req.sizes)
          /\ \A i \in 1..Len(thumbnails) : thumbnails[i].inner # NoImage
    /\ result # "Ok" => thumbnails = <<>>

C4_Witness ==
    /\ Returned
    /\ result = "DecodeFailure"
    /\ Len(req.sizes) = 2
    /\ thumbnails = <<>>

\* C5: with no size requested the call returns an empty list and the resize
\* operation is never invoked.
C5_ZeroSizes ==
    (pc # "idle" /\ req.sizes = <<>>) =>
        /\ resizeCalls = 0
        /\ \A i \in DOMAIN taskPc : taskPc[i] = "pending"
        /\ ReturnedOk => thumbnails = <<>>

C5_Witness ==
    /\ ReturnedOk
    /\ req.sizes = <<>>
    /\ thumbnails = <<>>
    /\ resizeCalls = 0

\* C6: a declared media type without a decoder makes the call fail with
\* UnsupportedFormat, whatever the requested sizes, with nothing read from
\* the stream and no resize performed.
C6_UnsupportedFormat ==
    (pc # "idle" /\ req.mime \notin SupportedTypes) =>
        /\ pc # "resize"
        /\ readPos = 0
        /\ resizeCalls = 0
        /\ Returned => (result = "UnsupportedFormat" /\ thumbnails = <<>>)

C6_Witness ==
    /\ Returned
    /\ req.mime = "text/plain"
    /\ req.reader.kind = "wellformed"
    /\ Len(req.sizes) = 2
    /\ result = "UnsupportedFormat"

\* Resizing the sizes one after another, in request order.
RECURSIVE SequentialResize(_, _)
SequentialResize(img, s) ==
    IF s = <<>> THEN <<>>
    ELSE <<Thumbnail(ResizeOne(img, Head(s)))>> \o SequentialResize(img, Tail(s))

\* C7: every schedule of the worker tasks returns the list a sequential
\* resize in request order returns: same length, order and dimensions.
C7_SameAsSequential ==
    ReturnedOk => thumbnails = SequentialResize(Decoded.image, req.sizes)

C7_Witness ==
    /\ ReturnedOk
    /\ Len(thumbnails) = 3
    /\ size(thumbnails[1]) # size(thumbnails[2])
    /\ size(thumbnails[2]) # size(thumbnails[3])
    /\ size(thumbnails[1]) # size(thumbnails[3])

Changed == {j \in DOMAIN out : out'[j] # out[j]}

\* C8: in the resize phase the base image stays what decode produced, and a
\* step writes at most one output slot, the one of the task that finishes in
\* that step.
C8_BaseImageReadOnly ==
    [][pc = "resize" =>
          /\ image = Decoded.image
          /\ image' = image
          /\ Cardinality(Changed) <= 1
          /\ \A j \in Changed : taskPc[j] = "running" /\ taskPc'[j] = "done"]_vars

C8_Witness ==
    /\ pc = "resize"
    /\ Cardinality(Running) = Workers
    /\ \E i \in DOMAIN taskPc : taskPc[i] = "done"
    /\ image = Decoded.image

C9_Ordered ==
    /\ decodeCalls <= 1
    /\ (pc = "resize" \/ result = "Ok") => decodeCalls = 1
    /\ \A i \in DOMAIN taskPc :
          taskPc[i] # "pending" => (decodeCalls = 1 /\ Decoded.status = "Ok"
                                      /\ image = Decoded.image)
    /\ ReturnedOk => \A i \in DOMAIN taskPc : taskPc[i] = "done"

\* C9: the base image is decoded exactly once, no resize task starts before
\* the decode has succeeded, the call returns only after every task has
\* finished, and after a successful decode the call eventually returns.
C9_DecodeFanOutFanIn ==
    /\ []C9_Ordered
    /\ (pc = "resize") ~> ReturnedOk

C9_Witness ==
    /\ ReturnedOk
    /\ decodeCalls = 1
    /\ Len(taskPc) = MaxSizes
    /\ resizeCalls = MaxSizes

\* C10: the policy is "always fit": for every source, smaller than the box or
\* not, the thumbnail meets a side of the box; 100x200 in (300,300) gives
\* (150,300).
C10_AlwaysFit ==
    ReturnedOk =>
        \A i \in 1..Len(thumbnails) :
            i <= Len(req.sizes) =>
                /\ size(thumbnails[i])[1] = BoxW(i) \/ size(thumbnails[i])[2] = BoxH(i)
                /\ (SrcW = 100 /\ SrcH = 200 /\ BoxW(i) = 300 /\ BoxH(i) = 300)
                      => size(thumbnails[i]) = <<150, 300>>

C10_Witness ==
    /\ ReturnedOk
    /\ SrcW = 100 /\ SrcH = 200
    /\ Len(req.sizes) >= 1 /\ req.sizes[1] = "Large"
    /\ size(thumbnails[1]) = <<150, 300>>

====
